---- MODULE Spec2Model ----
(***************************************************************************)
(* WGAN-GP notebook (src/Week12/WGAN-GP.ipynb): the training loop of the   *)
(* last code cell and compute_gradient_penalty.                            *)
(*                                                                         *)
(* Tensors of the training loop are symbolic: a tensor is the batch it was *)
(* computed in plus the set of networks whose parameters its autograd      *)
(* graph reaches.  A gradient accumulator (.grad) is the set of backward   *)
(* passes that deposited into it since it was last zeroed; the parameters  *)
(* of a network are the number of optimizer steps applied to them.         *)
(*                                                                         *)
(* Tensors of compute_gradient_penalty are numeric: image batches are      *)
(* indexed [sample][pixel], the pixel index running over the (C, H, W)     *)
(* positions of one sample.                                                *)
(***************************************************************************)
EXTENDS Integers, Sequences

VARIABLES
    n_batches,          \* len(train_loader)
    n_critic,           \* n_critic
    epoch,              \* for epoch in range(epochs)
    i,                  \* for i, (imgs, _) in enumerate(train_loader)
    pc,                 \* position in the training cell
    params,             \* network -> optimizer steps applied to its parameters
    grads,              \* network -> backward passes accumulated in .grad
    z,                  \* noise batch
    fake_imgs,          \* G(z).detach()
    d_loss,
    gen_imgs,
    g_loss,
    list_loss,          \* len(list_loss_D) = len(list_loss_G)
    printed,            \* last progress line
    sample_files,       \* epochs whose sample image was written
    files,              \* checkpoints written by torch.save, in order
    since_G,            \* critic steps since the last generator step
    pending,            \* optimizers whose loss was backpropagated but not yet stepped
    real_samples,       \* compute_gradient_penalty: argument
    fake_samples,       \* compute_gradient_penalty: argument
    alpha,
    interpolates,
    gradients,
    gradient_penalty,
    gp_pc               \* position in compute_gradient_penalty

train_vars == <<n_batches, n_critic, epoch, i, pc, params, grads, z, fake_imgs,
                d_loss, gen_imgs, g_loss, list_loss, printed, sample_files,
                files, since_G, pending>>
gp_vars == <<real_samples, fake_samples, alpha, interpolates, gradients,
             gradient_penalty, gp_pc>>
vars == <<train_vars, gp_vars>>

(***************************************************************************)
(* Program constants and model bounds                                      *)
(***************************************************************************)
epochs == 200
n_critic_default == 5
print_every == 300
sample_every == 5

MaxB == 6               \* batches per epoch explored: 1..MaxB
MaxNCritic == 5         \* n_critic explored: 1..MaxNCritic
LongB == 600            \* batches per epoch of the long-epoch runs (60000 / 100)

BatchN == 2             \* samples per batch in compute_gradient_penalty
NumPix == 2             \* pixels per sample
DrawBits == 3           \* np.random.random draws are multiples of 2^-DrawBits
TensorBits == 2         \* significand bits of the Tensor (FloatTensor) type
One == 5                \* gradient values are multiples of 1/One

(***************************************************************************)
(* Symbolic autograd                                                       *)
(***************************************************************************)
Nets == {"G", "D"}

optimizer_G == {"G"}
optimizer_D == {"D"}

Unassigned == [at |-> <<-1, -1>>, graph |-> {}]

NewTensor(e, b) == [at |-> <<e, b>>, graph |-> {}]

\* net(input): the output's graph reaches the net's parameters
Forward(net, input) == [input EXCEPT !.graph = @ \cup {net}]

\* a combination of tensors computed in batch (e, b)
Combine(e, b, ts) == [at |-> <<e, b>>, graph |-> UNION {t.graph : t \in ts}]

NoDetach(t) == t
Detach(t) == [t EXCEPT !.graph = {}]

KeepGrad(opt, g) == g
ZeroGrad(opt, g) == [n \in Nets |-> IF n \in opt THEN {} ELSE g[n]]

Backward(name, loss, g) ==
    [n \in Nets |-> IF n \in loss.graph
                    THEN g[n] \cup {[loss |-> name, at |-> loss.at]}
                    ELSE g[n]]

Step(opt, p) == [n \in Nets |-> IF n \in opt THEN p[n] + 1 ELSE p[n]]

\* compute_gradient_penalty as seen by the training loop: a tensor whose graph
\* reaches D through d_interpolates; autograd.grad deposits nothing in .grad
PenaltyTensor(e, b, real, fake) ==
    Combine(e, b, {Forward("D", Combine(e, b, {real, fake}))})

(***************************************************************************)
(* Training loop                                                           *)
(***************************************************************************)
GeneratorDueShifted(b, n) == (b + 1) % n = 0
GeneratorDue(b, n) == b % n = 0

PrintDue(b) == b % print_every = 0

SampleDue(e) == e % sample_every = 0

EpochsLeftInclusive(e) == e <= epochs
EpochsLeft(e) == e < epochs

HasNextBatch(b, n) == b < n

gp_idle == /\ UNCHANGED gp_vars

\* for i, (imgs, _) in enumerate(train_loader): next batch
FetchBatch ==
    /\ pc = "loop"
    /\ HasNextBatch(i, n_batches)
    /\ pc' = "D_zero_grad"
    /\ UNCHANGED <<n_batches, n_critic, epoch, i, params, grads, z, fake_imgs,
                   d_loss, gen_imgs, g_loss, list_loss, printed, sample_files,
                   files, since_G, pending>>
    /\ gp_idle

\* optimizer_D.zero_grad()
D_ZeroGrad ==
    /\ pc = "D_zero_grad"
    /\ grads' = ZeroGrad(optimizer_D, grads)
    /\ pc' = "D_forward"
    /\ UNCHANGED <<n_batches, n_critic, epoch, i, params, z, fake_imgs,
                   d_loss, gen_imgs, g_loss, list_loss, printed, sample_files,
                   files, since_G, pending>>
    /\ gp_idle

\* z, fake_imgs = G(z).detach(), gradient_penalty, d_loss
D_Forward ==
    /\ pc = "D_forward"
    /\ LET real_imgs == NewTensor(epoch, i)
           noise == NewTensor(epoch, i)
           fake == Detach(Forward("G", noise))
           gp == PenaltyTensor(epoch, i, Detach(real_imgs), Detach(fake))
       IN  /\ z' = noise
           /\ fake_imgs' = fake
           /\ d_loss' = Combine(epoch, i, {Forward("D", real_imgs),
                                           Forward("D", fake), gp})
    /\ pc' = "D_backward"
    /\ UNCHANGED <<n_batches, n_critic, epoch, i, params, grads,
                   gen_imgs, g_loss, list_loss, printed, sample_files,
                   files, since_G, pending>>
    /\ gp_idle

\* d_loss.backward()
D_Backward ==
    /\ pc = "D_backward"
    /\ grads' = Backward("d_loss", d_loss, grads)
    /\ pending' = pending \cup {"D"}
    /\ pc' = "D_step"
    /\ UNCHANGED <<n_batches, n_critic, epoch, i, params, z, fake_imgs,
                   d_loss, gen_imgs, g_loss, list_loss, printed, sample_files,
                   files, since_G>>
    /\ gp_idle

\* optimizer_D.step(); if i % n_critic == 0
D_Step ==
    /\ pc = "D_step"
    /\ params' = Step(optimizer_D, params)
    /\ pending' = pending \ {"D"}
    /\ since_G' = since_G + 1
    /\ pc' = IF GeneratorDue(i, n_critic) THEN "G_zero_grad" ELSE "print"
    /\ UNCHANGED <<n_batches, n_critic, epoch, i, grads, z, fake_imgs,
                   d_loss, gen_imgs, g_loss, list_loss, printed, sample_files,
                   files>>
    /\ gp_idle

\* optimizer_G.zero_grad()
G_ZeroGrad ==
    /\ pc = "G_zero_grad"
    /\ grads' = ZeroGrad(optimizer_G, grads)
    /\ pc' = "G_forward"
    /\ UNCHANGED <<n_batches, n_critic, epoch, i, params, z, fake_imgs,
                   d_loss, gen_imgs, g_loss, list_loss, printed, sample_files,
                   files, since_G, pending>>
    /\ gp_idle

\* gen_imgs = G(z); g_loss = -torch.mean(D(gen_imgs))
G_Forward ==
    /\ pc = "G_forward"
    /\ LET imgs == Forward("G", z)
       IN  /\ gen_imgs' = imgs
           /\ g_loss' = Combine(epoch, i, {Forward("D", imgs)})
    /\ pc' = "G_backward"
    /\ UNCHANGED <<n_batches, n_critic, epoch, i, params, grads, z, fake_imgs,
                   d_loss, list_loss, printed, sample_files,
                   files, since_G, pending>>
    /\ gp_idle

\* g_loss.backward()
G_Backward ==
    /\ pc = "G_backward"
    /\ grads' = Backward("g_loss", g_loss, grads)
    /\ pending' = pending \cup {"G"}
    /\ pc' = "G_step"
    /\ UNCHANGED <<n_batches, n_critic, epoch, i, params, z, fake_imgs,
                   d_loss, gen_imgs, g_loss, list_loss, printed, sample_files,
                   files, since_G>>
    /\ gp_idle

\* optimizer_G.step(); list_loss_D.append(...); list_loss_G.append(...)
G_Step ==
    /\ pc = "G_step"
    /\ params' = Step(optimizer_G, params)
    /\ pending' = pending \ {"G"}
    /\ since_G' = 0
    /\ list_loss' = list_loss + 1
    /\ pc' = "print"
    /\ UNCHANGED <<n_batches, n_critic, epoch, i, grads, z, fake_imgs,
                   d_loss, gen_imgs, g_loss, printed, sample_files, files>>
    /\ gp_idle

\* if i % 300 == 0: print(...); reading an unassigned g_loss raises NameError
PrintProgress ==
    /\ pc = "print"
    /\ IF PrintDue(i)
       THEN IF g_loss = Unassigned
            THEN /\ pc' = "error"
                 /\ UNCHANGED <<printed, i>>
            ELSE /\ printed' = [epoch |-> epoch, batch |-> i,
                                d_loss |-> d_loss.at, g_loss |-> g_loss.at]
                 /\ i' = i + 1
                 /\ pc' = "loop"
       ELSE /\ i' = i + 1
            /\ pc' = "loop"
            /\ UNCHANGED printed
    /\ UNCHANGED <<n_batches, n_critic, epoch, params, grads, z, fake_imgs,
                   d_loss, gen_imgs, g_loss, list_loss, sample_files,
                   files, since_G, pending>>
    /\ gp_idle

\* end of the inner loop: if epoch % 5 == 0: save_image(gen_imgs...); next epoch
EpochEnd ==
    /\ pc = "loop"
    /\ ~HasNextBatch(i, n_batches)
    /\ IF SampleDue(epoch) /\ gen_imgs = Unassigned
       THEN /\ pc' = "error"
            /\ UNCHANGED <<sample_files, epoch, i>>
       ELSE /\ sample_files' = IF SampleDue(epoch)
                               THEN sample_files \cup {epoch}
                               ELSE sample_files
            /\ epoch' = epoch + 1
            /\ i' = 0
            /\ pc' = IF EpochsLeft(epoch + 1) THEN "loop" ELSE "save_G"
    /\ UNCHANGED <<n_batches, n_critic, params, grads, z, fake_imgs,
                   d_loss, gen_imgs, g_loss, list_loss, printed,
                   files, since_G, pending>>
    /\ gp_idle

\* torch.save(G, .../G.pt)
SaveG ==
    /\ pc = "save_G"
    /\ files' = Append(files, "G.pt")
    /\ pc' = "save_D"
    /\ UNCHANGED <<n_batches, n_critic, epoch, i, params, grads, z, fake_imgs,
                   d_loss, gen_imgs, g_loss, list_loss, printed, sample_files,
                   since_G, pending>>
    /\ gp_idle

\* torch.save(D, .../D.pt)
SaveD ==
    /\ pc = "save_D"
    /\ files' = Append(files, "D.pt")
    /\ pc' = "done"
    /\ UNCHANGED <<n_batches, n_critic, epoch, i, params, grads, z, fake_imgs,
                   d_loss, gen_imgs, g_loss, list_loss, printed, sample_files,
                   since_G, pending>>
    /\ gp_idle

NoPrint == [epoch |-> -1, batch |-> -1, d_loss |-> <<-1, -1>>, g_loss |-> <<-1, -1>>]

GPIdleInit ==
    /\ real_samples = <<>>
    /\ fake_samples = <<>>
    /\ alpha = <<>>
    /\ interpolates = <<>>
    /\ gradients = <<>>
    /\ gradient_penalty = [num |-> 0, den |-> 1]
    /\ gp_pc = "idle"

TrainStart ==
    /\ epoch = 0
    /\ i = 0
    /\ pc = "loop"
    /\ params = [n \in Nets |-> 0]
    /\ grads = [n \in Nets |-> {}]
    /\ z = Unassigned
    /\ fake_imgs = Unassigned
    /\ d_loss = Unassigned
    /\ gen_imgs = Unassigned
    /\ g_loss = Unassigned
    /\ list_loss = 0
    /\ printed = NoPrint
    /\ sample_files = {}
    /\ files = <<>>
    /\ since_G = 0
    /\ pending = {}

InitTrain ==
    /\ n_batches \in 1..MaxB
    /\ n_critic \in 1..MaxNCritic
    /\ TrainStart
    /\ GPIdleInit

InitLong ==
    /\ n_batches = LongB
    /\ n_critic = n_critic_default
    /\ TrainStart
    /\ GPIdleInit

NextTrain ==
    \/ FetchBatch
    \/ D_ZeroGrad
    \/ D_Forward
    \/ D_Backward
    \/ D_Step
    \/ G_ZeroGrad
    \/ G_Forward
    \/ G_Backward
    \/ G_Step
    \/ PrintProgress
    \/ EpochEnd
    \/ SaveG
    \/ SaveD

SpecTrain == InitTrain /\ [][NextTrain]_vars

\* the notebook runs the cell to completion: every enabled step is taken
FairTrain == InitTrain /\ [][NextTrain]_vars /\ WF_vars(NextTrain)

SpecLong == InitLong /\ [][NextTrain]_vars

(***************************************************************************)
(* compute_gradient_penalty                                                *)
(*                                                                         *)
(* alpha and interpolates are numerators over AlphaDen; pixel values are   *)
(* integers.  Gradients, and their norms, are numerators over One.  The    *)
(* float64 -> float32 conversion of alpha is modelled (ToTensor); products *)
(* and sums of the interpolation are exact.                                *)
(***************************************************************************)
RECURSIVE Pow2(_)
Pow2(n) == IF n = 0 THEN 1 ELSE 2 * Pow2(n - 1)

RECURSIVE BitLen(_)
BitLen(a) == IF a = 0 THEN 0 ELSE 1 + BitLen(a \div 2)

AlphaDen == Pow2(DrawBits)

\* np.random.random: a float64 in [0, 1)
Draws == 0..(AlphaDen - 1)

\* Tensor(ndarray): round to the nearest value with TensorBits significand
\* bits, ties to even
ToTensor(a) ==
    LET len == BitLen(a)
    IN  IF len <= TensorBits
        THEN a
        ELSE LET unit == Pow2(len - TensorBits)
                 q == a \div unit
                 r == a % unit
                 up == \/ 2 * r > unit
                       \/ 2 * r = unit /\ q % 2 = 1
             IN  (IF up THEN q + 1 ELSE q) * unit

RealVals == {-1, 1}
FakeVals == {0}
GradVals == {-3, 0, 3, 4}

Samples == 1..BatchN
Pixels == 1..NumPix

Batches(vals) == [Samples -> [Pixels -> vals]]

\* broadcasting a (N, 1, 1, 1) tensor against a (N, C, H, W) tensor
ExpandFirst(a) == [k \in Samples |-> [p \in Pixels |-> a[1]]]
Expand(a) == [k \in Samples |-> [p \in Pixels |-> a[k]]]

TMul(x, y) == [k \in Samples |-> [p \in Pixels |-> x[k][p] * y[k][p]]]
TAdd(x, y) == [k \in Samples |-> [p \in Pixels |-> x[k][p] + y[k][p]]]

\* 1 - alpha
OneMinus(a) == [k \in Samples |-> AlphaDen - a[k]]

\* alpha * real_samples + ((1 - alpha) * fake_samples)
Interpolate(a, real, fake) ==
    TAdd(TMul(Expand(a), real), TMul(Expand(OneMinus(a)), fake))

RECURSIVE SumSeq(_)
SumSeq(s) == IF s = <<>> THEN 0 ELSE Head(s) + SumSeq(Tail(s))

RECURSIVE FloorSqrt(_, _)
FloorSqrt(s, n) == IF (n + 1) * (n + 1) > s THEN n ELSE FloorSqrt(s, n + 1)

\* v.norm(2): the square root of the sum of squares, rounded to the nearest
\* representable value
Norm2(v) ==
    LET s == SumSeq([j \in 1..Len(v) |-> v[j] * v[j]])
        f == FloorSqrt(s, 0)
    IN  IF s - f * f > f THEN f + 1 ELSE f

\* gradients.view(gradients.size(0), -1).norm(2, dim=1)
NormsDim0(g) == [p \in Pixels |-> Norm2([k \in Samples |-> g[k][p]])]
NormsDim1(g) == [k \in Samples |-> Norm2(g[k])]

\* ((norms - 1) ** 2).mean(), as a fraction
PenaltyMean(norms) ==
    [num |-> SumSeq([j \in 1..Len(norms) |-> (norms[j] - One) * (norms[j] - One)]),
     den |-> Len(norms) * One * One]

train_idle == /\ UNCHANGED train_vars

\* alpha = Tensor(np.random.random((real_samples.size(0), 1, 1, 1)))
GP_DrawAlpha ==
    /\ gp_pc = "called"
    /\ \E draw \in [Samples -> Draws] :
          alpha' = [k \in Samples |-> ToTensor(draw[k])]
    /\ gp_pc' = "alpha"
    /\ UNCHANGED <<real_samples, fake_samples, interpolates, gradients,
                   gradient_penalty>>
    /\ train_idle

\* interpolates = (alpha * real_samples + ((1 - alpha) * fake_samples))
GP_Interpolate ==
    /\ gp_pc = "alpha"
    /\ interpolates' = Interpolate(alpha, real_samples, fake_samples)
    /\ gp_pc' = "interpolated"
    /\ UNCHANGED <<real_samples, fake_samples, alpha, gradients,
                   gradient_penalty>>
    /\ train_idle

\* gradients = autograd.grad(outputs=D(interpolates), inputs=interpolates, ...)[0]
\* D is an arbitrary network: any gradient of the shape of interpolates
GP_Autograd ==
    /\ gp_pc = "interpolated"
    /\ gradients' \in Batches(GradVals)
    /\ gp_pc' = "gradients"
    /\ UNCHANGED <<real_samples, fake_samples, alpha, interpolates,
                   gradient_penalty>>
    /\ train_idle

\* gradients.view(N, -1); ((gradients.norm(2, dim=1) - 1) ** 2).mean(); return
GP_Return ==
    /\ gp_pc = "gradients"
    /\ gradient_penalty' = PenaltyMean(NormsDim1(gradients))
    /\ gp_pc' = "returned"
    /\ UNCHANGED <<real_samples, fake_samples, alpha, interpolates, gradients>>
    /\ train_idle

TrainIdleInit ==
    /\ n_batches = 1
    /\ n_critic = n_critic_default
    /\ TrainStart

\* a call of compute_gradient_penalty with any real and fake batch
InitInterp ==
    /\ real_samples \in Batches(RealVals)
    /\ fake_samples \in Batches(FakeVals)
    /\ alpha = <<>>
    /\ interpolates = <<>>
    /\ gradients = <<>>
    /\ gradient_penalty = [num |-> 0, den |-> 1]
    /\ gp_pc = "called"
    /\ TrainIdleInit

NextInterp ==
    \/ GP_DrawAlpha
    \/ GP_Interpolate

SpecInterp == InitInterp /\ [][NextInterp]_vars

\* the call after the interpolation of one fixed pair of batches
InitPenalty ==
    /\ real_samples = [k \in Samples |-> [p \in Pixels |-> 1]]
    /\ fake_samples = [k \in Samples |-> [p \in Pixels |-> 0]]
    /\ alpha = [k \in Samples |-> 0]
    /\ interpolates = Interpolate(alpha, real_samples, fake_samples)
    /\ gradients = <<>>
    /\ gradient_penalty = [num |-> 0, den |-> 1]
    /\ gp_pc = "interpolated"
    /\ TrainIdleInit

NextPenalty ==
    \/ GP_Autograd
    \/ GP_Return

SpecPenalty == InitPenalty /\ [][NextPenalty]_vars

(***************************************************************************)
(* Properties                                                              *)
(***************************************************************************)
DPhase == {"D_zero_grad", "D_forward", "D_backward", "D_step"}
GPhase == {"G_zero_grad", "G_forward", "G_backward", "G_step"}

\* C1: the critic is updated once on every batch, and every generator update
\* after the first comes exactly n_critic critic updates after the previous
\* one, also across an epoch boundary, for every number of batches per epoch
\* and every n_critic.
C1_GeneratorEveryNCritic ==
    /\ pc = "print" => params["D"] = epoch * n_batches + i + 1
    /\ pc = "G_step" /\ params["G"] >= 1 => since_G = n_critic

\* C3: no step of the 'Train Discriminator' phase changes the generator's
\* parameters or its gradient accumulators, and no step of the 'Train
\* Generator' phase changes the critic's parameters.
C3_PhasesTrainOwnNetwork ==
    [][/\ pc \in DPhase => /\ params'["G"] = params["G"]
                           /\ grads'["G"] = grads["G"]
       /\ pc \in GPhase => params'["D"] = params["D"]]_vars

\* a critic phase has run to its end while the generator's accumulators held
\* the gradients of an earlier batch's g_loss
C3_Witness ==
    /\ pc = "print"
    /\ ~GeneratorDue(i, n_critic)
    /\ params["G"] >= 1
    /\ params["D"] >= 2
    /\ grads["G"] # {}

C4_Safety ==
    /\ files \in {<<>>, <<"G.pt">>, <<"G.pt", "D.pt">>}
    /\ files # <<>> => /\ epoch = epochs
                       /\ params["D"] = epochs * n_batches
                       /\ pending = {}
                       /\ pc \in {"save_D", "done"}
    /\ pc = "done" => /\ files = <<"G.pt", "D.pt">>
                      /\ params["D"] = epochs * n_batches

\* C4: the run terminates, having made exactly epochs * B critic updates, and
\* G.pt then D.pt are each written once, after the last batch of the last
\* epoch and with no backpropagated loss waiting for its optimizer step.
C4_TerminatesAndSaves == <>(pc = "done") /\ []C4_Safety

C4_Witness ==
    /\ pc = "done"
    /\ files = <<"G.pt", "D.pt">>
    /\ params["D"] = epochs * n_batches
    /\ n_batches > 1

\* C5: with n_critic = 5 no progress line is cut short by an unassigned
\* g_loss, and the D loss and the G loss of every progress line were computed
\* in the batch and epoch the line is printed for.
C5_PrintedLossesAreCurrent ==
    /\ pc # "error"
    /\ printed # NoPrint => /\ printed.d_loss = <<printed.epoch, printed.batch>>
                            /\ printed.g_loss = <<printed.epoch, printed.batch>>

\* the line of batch 300 of a later epoch
C5_Witness ==
    /\ printed.batch = print_every
    /\ printed.epoch >= 1
    /\ n_critic = n_critic_default

\* C7: when optimizer_D.step runs, the critic's accumulators hold the
\* gradients of this batch's d_loss and nothing else (they are empty after
\* zero_grad and the gradient penalty's autograd.grad); when optimizer_G.step
\* runs, the generator's accumulators hold the gradients of this batch's
\* g_loss and nothing else.
C7_NoStaleGradients ==
    /\ pc = "D_backward" => grads["D"] = {}
    /\ pc = "D_step" => grads["D"] = {[loss |-> "d_loss", at |-> <<epoch, i>>]}
    /\ pc = "G_step" => grads["G"] = {[loss |-> "g_loss", at |-> <<epoch, i>>]}

\* a critic step after a generator phase has left g_loss gradients in the critic
C7_Witness ==
    /\ pc = "D_step"
    /\ params["G"] >= 1
    /\ [loss |-> "g_loss", at |-> <<epoch, i>>] \notin grads["D"]
    /\ i >= 1
    /\ GeneratorDue(i - 1, n_critic)

Min(a, b) == IF a <= b THEN a ELSE b
Max(a, b) == IF a >= b THEN a ELSE b

C6_Interpolation(weights) ==
    gp_pc = "interpolated" =>
        \A k \in Samples :
            /\ alpha[k] \in weights
            /\ \A p \in Pixels :
                  LET r == real_samples[k][p]
                      f == fake_samples[k][p]
                      x == interpolates[k][p]
                  IN  /\ x = alpha[k] * r + (AlphaDen - alpha[k]) * f
                      /\ AlphaDen * Min(r, f) <= x
                      /\ x <= AlphaDen * Max(r, f)

NearestNorm(k) ==
    LET s == SumSeq([p \in Pixels |-> gradients[k][p] * gradients[k][p]])
    IN  CHOOSE n \in 0..(s + 1) :
            /\ 4 * s < (2 * n + 1) * (2 * n + 1)
            /\ n = 0 \/ (2 * n - 1) * (2 * n - 1) < 4 * s

\* C2: the returned penalty is the mean over the batch of (n_k - 1)^2, n_k
\* the L2 norm of sample k's gradient over all its pixels; it is never
\* negative and it is 0 exactly when every n_k is 1.
C2_PenaltyIsMeanSquaredDeviation ==
    gp_pc = "returned" =>
        /\ gradient_penalty.den = BatchN * One * One
        /\ gradient_penalty.num =
              SumSeq([k \in Samples |-> (NearestNorm(k) - One) * (NearestNorm(k) - One)])
        /\ gradient_penalty.num >= 0
        /\ gradient_penalty.num = 0 <=> \A k \in Samples : NearestNorm(k) = One

\* a penalty of 0 for two different gradients of norm 1
C2_Witness ==
    /\ gp_pc = "returned"
    /\ gradient_penalty.num = 0
    /\ gradients[1] # gradients[2]
    /\ \A k \in Samples : \E p \in Pixels : gradients[k][p] # 0

====
